---- MODULE Spec2Model ----
(***************************************************************************)
(* Model of the analytics core of stock_tracker.py: the memoised fetch     *)
(* (fetch_data), the RSI computation (calculate_rsi), the per-symbol       *)
(* record builder (get_stock_data), the market overview                    *)
(* (get_market_overview), the top-3 selection (get_top_3_picks) and the    *)
(* refresh action of main_app that clears the cache.                       *)
(*                                                                         *)
(* Floating-point values are modelled as exact rationals extended with     *)
(* NaN and the two infinities, with the IEEE rules for division by zero    *)
(* and for comparisons against NaN; rounding is not modelled.              *)
(***************************************************************************)
EXTENDS Integers, Sequences, FiniteSets, TLC

VARIABLES
    fetch_cache,      \* st.cache_data store of fetch_data: (ticker, period) -> Miss | None | series
    stock_cache,      \* st.cache_data store of get_stock_data: (stock_list, period) -> Miss | mapping
    fetch_calls,      \* history: provider queries per (ticker, period) since the last cache clear
    fetched,          \* history: (ticker, period) keys the provider was queried for by the last operation
    first_result,     \* history: mapping returned by the first call per key since the last cache clear
    last_call,        \* the last operation: its name, its symbol list, whether its own store served it
    result,           \* value returned by the last get_stock_data call
    overview,         \* value returned by the last get_market_overview call
    data,             \* price series handed to the record builder (series specification)
    rec,              \* record built from data (series specification)
    stock_data_dict,  \* input of get_top_3_picks: the records in dict order (ranking specification)
    top_picks,        \* output of get_top_3_picks (ranking specification)
    rsi,              \* RSI value handed to the classifier (classifier specification)
    analyst_pick      \* label computed from rsi (classifier specification)

vars == <<fetch_cache, stock_cache, fetch_calls, fetched, first_result, last_call,
          result, overview, data, rec, stock_data_dict, top_picks, rsi, analyst_pick>>

cacheVars == <<fetch_cache, stock_cache, fetch_calls, fetched, first_result, last_call,
               result, overview>>
seriesVars == <<data, rec>>
rankVars == <<stock_data_dict, top_picks>>
classVars == <<rsi, analyst_pick>>

(***************************************************************************)
(* Bounds of the model.                                                    *)
(***************************************************************************)
MaxBars == 6          \* longest price series drawn
MaxRecs == 4          \* largest record collection handed to the ranking
MaxDen == 2           \* RSI inputs of the classifier are the k/d in [0,100], d <= MaxDen

(***************************************************************************)
(* Extended rationals standing for Python / numpy floats.                  *)
(***************************************************************************)
Abs(x) == IF x < 0 THEN -x ELSE x

Sign(x) == IF x < 0 THEN -1 ELSE IF x > 0 THEN 1 ELSE 0

RECURSIVE GCD(_, _)
GCD(a, b) == IF b = 0 THEN a ELSE GCD(b, a % b)

NaN == [k |-> "nan", n |-> 0, d |-> 1]

Inf(s) == [k |-> "inf", n |-> s, d |-> 1]

Fin(n, d) ==
    LET g == GCD(Abs(n), Abs(d))
    IN  [k |-> "fin", n |-> Sign(n) * Sign(d) * (Abs(n) \div g), d |-> Abs(d) \div g]

Num(x) == Fin(x, 1)

IsNaN(a) == a.k = "nan"

FNeg(a) == IF a.k = "nan" THEN NaN ELSE [a EXCEPT !.n = -a.n]

FAdd(a, b) ==
    CASE a.k = "nan" \/ b.k = "nan" -> NaN
      [] a.k = "inf" /\ b.k = "inf" -> IF a.n = b.n THEN a ELSE NaN
      [] a.k = "inf" -> a
      [] b.k = "inf" -> b
      [] OTHER -> LET g == GCD(a.d, b.d)
                  IN  Fin(a.n * (b.d \div g) + b.n * (a.d \div g), a.d * (b.d \div g))

FSub(a, b) == FAdd(a, FNeg(b))

FMul(a, b) ==
    CASE a.k = "nan" \/ b.k = "nan" -> NaN
      [] a.k = "inf" \/ b.k = "inf" ->
            IF Sign(a.n) * Sign(b.n) = 0 THEN NaN ELSE Inf(Sign(a.n) * Sign(b.n))
      [] OTHER -> LET g1 == GCD(Abs(a.n), b.d)
                      g2 == GCD(Abs(b.n), a.d)
                  IN  Fin((a.n \div g1) * (b.n \div g2), (a.d \div g2) * (b.d \div g1))

\* numpy float division: x/0 is +-inf for x # 0 and NaN for x = 0, never an exception
FDiv(a, b) ==
    CASE a.k = "nan" \/ b.k = "nan" -> NaN
      [] a.k = "inf" /\ b.k = "inf" -> NaN
      [] a.k = "inf" -> Inf(IF b.n < 0 THEN -a.n ELSE a.n)
      [] b.k = "inf" -> Num(0)
      [] b.n = 0 -> IF a.n = 0 THEN NaN ELSE Inf(Sign(a.n))
      [] OTHER -> FMul(a, Fin(b.d, b.n))

\* every ordered comparison with NaN is False
FLess(a, b) ==
    CASE a.k = "nan" \/ b.k = "nan" -> FALSE
      [] a.k = "inf" /\ b.k = "inf" -> a.n < b.n
      [] a.k = "inf" -> a.n < 0
      [] b.k = "inf" -> b.n > 0
      [] OTHER -> a.n * b.d < b.n * a.d

FGreater(a, b) == FLess(b, a)

\* NaN == NaN is False
FEq(a, b) == a.k # "nan" /\ b.k # "nan" /\ a = b

FAbs(a) == IF a.k = "nan" THEN NaN ELSE [a EXCEPT !.n = Abs(a.n)]

(***************************************************************************)
(* calculate_rsi                                                           *)
(***************************************************************************)
\* Series.diff(): first element NaN, then close-to-close differences
Diff(s) == [i \in 1..Len(s) |-> IF i = 1 THEN NaN ELSE FSub(s[i], s[i - 1])]

ClipLower(s) == [i \in 1..Len(s) |-> IF FLess(s[i], Num(0)) THEN Num(0) ELSE s[i]]

ClipUpper(s) == [i \in 1..Len(s) |-> IF FGreater(s[i], Num(0)) THEN Num(0) ELSE s[i]]

NegSeries(s) == [i \in 1..Len(s) |-> FNeg(s[i])]

periods == 14

\* smoothing factor of ewm(span=periods): alpha = 2 / (span + 1)
Alpha == Fin(2, periods + 1)

\* pandas ewm(adjust=False, ignore_na=False).mean(), one step per element:
\* weighted is the running mean, old_wt the weight it carries
RECURSIVE EwmFrom(_, _, _, _)
EwmFrom(vals, i, weighted, old_wt) ==
    IF i > Len(vals) THEN <<>>
    ELSE LET cur == vals[i]
             is_observation == ~IsNaN(cur)
             decayed == FMul(old_wt, FSub(Num(1), Alpha))
             w2 == IF ~IsNaN(weighted)
                   THEN IF is_observation
                        THEN IF weighted # cur
                             THEN FDiv(FAdd(FMul(decayed, weighted), FMul(Alpha, cur)),
                                       FAdd(decayed, Alpha))
                             ELSE weighted
                        ELSE weighted
                   ELSE IF is_observation THEN cur ELSE weighted
             ow2 == IF ~IsNaN(weighted)
                    THEN IF is_observation THEN Num(1) ELSE decayed
                    ELSE old_wt
         IN  <<w2>> \o EwmFrom(vals, i + 1, w2, ow2)

EwmMean(vals) ==
    IF vals = <<>> THEN <<>> ELSE <<vals[1]>> \o EwmFrom(vals, 2, vals[1], Num(1))

calculate_rsi(df) ==
    IF df.Close = <<>> THEN <<>>
    ELSE LET delta == Diff(df.Close)
             gain == ClipLower(delta)
             loss == NegSeries(ClipUpper(delta))
             avg_gain == EwmMean(gain)
             avg_loss == EwmMean(loss)
             rs == [i \in 1..Len(delta) |-> FDiv(avg_gain[i], avg_loss[i])]
         IN  [i \in 1..Len(delta) |->
                 FSub(Num(100), FDiv(Num(100), FAdd(Num(1), rs[i])))]

(***************************************************************************)
(* get_stock_data: the record of one symbol                                *)
(***************************************************************************)
Last(s) == s[Len(s)]

\* data["Close"].iloc[-5]
Iloc5(s) == s[Len(s) - 4]

Momentum(df) ==
    IF Len(df.Close) >= 5 THEN FDiv(FSub(Last(df.Close), Iloc5(df.Close)), Num(5))
    ELSE Num(0)

\* slip: reads the first element of the RSI series instead of the latest
LatestRsiFirst(df) ==
    IF calculate_rsi(df) # <<>> THEN calculate_rsi(df)[1] ELSE Num(0)

LatestRsi(df) ==
    IF calculate_rsi(df) # <<>> THEN Last(calculate_rsi(df)) ELSE Num(0)

\* slip: inclusive thresholds
AnalystPickInclusive(r) ==
    IF ~FGreater(r, Num(50)) /\ ~IsNaN(r) THEN "Buy"
    ELSE IF ~FGreater(r, Num(70)) /\ ~IsNaN(r) THEN "Hold" ELSE "Sell"

AnalystPick(r) ==
    IF FLess(r, Num(50)) THEN "Buy" ELSE IF FLess(r, Num(70)) THEN "Hold" ELSE "Sell"

Risk(day_change) == IF FGreater(FAbs(day_change), Num(5)) THEN "High" ELSE "Medium"

BuildRecord(df) ==
    LET current_price == Last(df.Close)
        day_change == FMul(FDiv(FSub(current_price, Last(df.Open)), Last(df.Open)), Num(100))
        r == LatestRsi(df)
    IN  [Price |-> current_price, Change |-> day_change, Momentum |-> Momentum(df),
         RSI |-> r, Analyst |-> AnalystPick(r), Risk |-> Risk(day_change), Data |-> df]

(***************************************************************************)
(* get_top_3_picks.  A record is a Python dict whose "Data" entry is a     *)
(* DataFrame owned by that record alone; Data is modelled by a token that  *)
(* identifies the object, so two records are the same object iff they are  *)
(* equal here.                                                             *)
(***************************************************************************)
Scalars == {"Price", "Change", "Momentum", "RSI"}

\* dict == dict on two records: True for the same object; otherwise the
\* entries are compared in turn, a float entry that differs (NaN differs from
\* NaN) ends the comparison with False, and when every scalar entry agrees
\* the two distinct DataFrames are compared, which raises ValueError
DictEq(a, b) ==
    IF a = b THEN "True"
    ELSE IF /\ \A f \in Scalars : FEq(a[f], b[f])
            /\ a.Analyst = b.Analyst /\ a.Risk = b.Risk
         THEN "ValueError"
         ELSE "False"

\* stock in picks: the elements are compared in list order
RECURSIVE Contains(_, _)
Contains(picks, stock) ==
    IF picks = <<>> THEN "False"
    ELSE LET c == DictEq(Head(picks), stock)
         IN  IF c = "False" THEN Contains(Tail(picks), stock) ELSE c

\* (Change, Momentum) tuple of a is less than that of b
KeyLess(a, b) ==
    \/ FLess(a.Change, b.Change)
    \/ FEq(a.Change, b.Change) /\ FLess(a.Momentum, b.Momentum)

\* stable insertion into a descending list: after every element not smaller
RECURSIVE InsertDesc(_, _)
InsertDesc(sorted, x) ==
    IF sorted = <<>> THEN <<x>>
    ELSE IF KeyLess(Head(sorted), x) THEN <<x>> \o sorted
         ELSE <<Head(sorted)>> \o InsertDesc(Tail(sorted), x)

\* sorted(stock_data_list, key=(Change, Momentum), reverse=True)
RECURSIVE SortedDesc(_)
SortedDesc(list) ==
    IF list = <<>> THEN <<>>
    ELSE InsertDesc(SortedDesc(SubSeq(list, 1, Len(list) - 1)), list[Len(list)])

Take(list, n) == SubSeq(list, 1, IF n < Len(list) THEN n ELSE Len(list))

MomentumFloor == Fin(5, 1000)

Primary(stock) == FGreater(stock.Change, Num(0)) /\ FGreater(stock.Momentum, MomentumFloor)

\* slip: the backfill admits a record whose change is zero
BackfillCandidateZero(stock) == ~FLess(stock.Change, Num(0))

\* first condition of the backfill comprehension; the membership test is only
\* evaluated for a record that passes it
BackfillCandidate(stock) == FGreater(stock.Change, Num(0))

get_top_3_picks(dict) ==
    LET sorted_data == SortedDesc(dict)
        primary == Take(SelectSeq(sorted_data, Primary), 3)
        candidates == SelectSeq(sorted_data, BackfillCandidate)
        Fresh(stock) == Contains(primary, stock) = "False"
        Raises(stock) == Contains(primary, stock) = "ValueError"
        additional == Take(SelectSeq(candidates, Fresh), 3 - Len(primary))
    IN  IF Len(primary) < 3
        THEN IF \E i \in 1..Len(candidates) : Raises(candidates[i])
             THEN [status |-> "ValueError", picks |-> <<>>]
             ELSE [status |-> "returned", picks |-> Take(primary \o additional, 3)]
        ELSE [status |-> "returned", picks |-> Take(primary, 3)]

(***************************************************************************)
(* Price series drawn as inputs: closes start at a price of StartPrices    *)
(* and move by a step of Steps per bar; a bar opens at the previous close, *)
(* except the last bar, which opens a gap of Steps below its own close.    *)
(***************************************************************************)
StartPrices == {10}

Steps == {-1, 0, 1}

NoRecord == [Price |-> NaN, Change |-> NaN, Momentum |-> NaN, RSI |-> NaN,
             Analyst |-> "none", Risk |-> "none", Data |-> [Open |-> <<>>, Close |-> <<>>]]  \* no record built yet

RECURSIVE Closes(_, _)
Closes(start, steps) ==
    IF steps = <<>> THEN <<Num(start)>>
    ELSE LET prev == Closes(start, SubSeq(steps, 1, Len(steps) - 1))
         IN  Append(prev, FAdd(Last(prev), Num(steps[Len(steps)])))

MkSeries(start, steps, gap) ==
    LET close == Closes(start, steps)
        n == Len(close)
    IN  [Open |-> [i \in 1..n |-> IF i = n THEN FSub(close[n], Num(gap))
                                  ELSE IF i = 1 THEN close[1] ELSE close[i - 1]],
         Close |-> close]

\* closes 10, 11, 12, 13, 14, 15 with last open 14
ExampleA == MkSeries(10, <<1, 1, 1, 1, 1>>, 1)

\* a series of 3 bars
ExampleB == MkSeries(10, <<1, -1>>, 0)

EmptyFrame == [Open |-> <<>>, Close |-> <<>>]

SeriesInputs ==
    { MkSeries(p, st, g) :
        p \in StartPrices,
        st \in UNION { [1..m -> Steps] : m \in 0..(MaxBars - 1) },
        g \in Steps }

(***************************************************************************)
(* The memoised fetch, the batch builder, the market overview and the      *)
(* refresh action.  Symbols and lists are a scaled-down copy of the lists  *)
(* of main_app: trending, potential, their concatenation, and the economic *)
(* picks that overlap both.                                                *)
(***************************************************************************)
Stocks == {"A", "B", "C"}

indices == <<"^GSPC">>

trending_stocks == <<"A", "B">>

potential_stocks == <<"C">>

all_stocks == trending_stocks \o potential_stocks

picks == <<"B", "C">>

StockLists == {trending_stocks, potential_stocks, all_stocks, picks}

Range(seq) == { seq[i] : i \in 1..Len(seq) }

FetchKeys == (Stocks \X {"1mo"}) \cup (Range(indices) \X {"1d"})

\* what the market-data provider does when queried: raise, or return a frame
\* (possibly empty)
ProviderFrames == {ExampleA, ExampleB}

Outcomes ==
    {[exc |-> TRUE, frame |-> EmptyFrame]}
        \cup { [exc |-> FALSE, frame |-> f] : f \in ProviderFrames \cup {EmptyFrame} }

None == [none |-> TRUE, frame |-> EmptyFrame]

Some(f) == [none |-> FALSE, frame |-> f]

Miss == [hit |-> FALSE, val |-> None]

\* slip: no try/except around the provider call, the failure escapes
fetch_data_uncaught(outcome) ==
    IF outcome.exc THEN [exc |-> TRUE, val |-> None]
    ELSE [exc |-> FALSE,
          val |-> IF outcome.frame # EmptyFrame THEN Some(outcome.frame) ELSE None]

\* body of fetch_data for one provider outcome: the value returned, or the
\* exception that escapes it
fetch_data(outcome) ==
    IF outcome.exc THEN [exc |-> FALSE, val |-> None]
    ELSE [exc |-> FALSE,
          val |-> IF outcome.frame # EmptyFrame THEN Some(outcome.frame) ELSE None]

\* slip: a None return value is not kept in the cache
MemoUnlessNone(v) == IF v.none THEN Miss ELSE [hit |-> TRUE, val |-> v]

\* st.cache_data stores whatever value the function returned, None included
Memo(v) == [hit |-> TRUE, val |-> v]

MaxFetches == 3       \* cap of the per-key provider query counter

\* the cached fetch_data called for each symbol in turn; st carries the
\* cache, the query counters, the provider outcomes met, the escaped
\* exception flag and the counter-cap flag
RECURSIVE FetchEach(_, _, _, _)
FetchEach(symbols, period, out, st) ==
    IF symbols = <<>> \/ st.exc \/ st.over THEN st
    ELSE LET key == <<Head(symbols), period>>
             r == fetch_data(out[Head(symbols)])
         IN  IF st.cache[key].hit THEN FetchEach(Tail(symbols), period, out, st)
             ELSE IF st.calls[key] >= MaxFetches THEN [st EXCEPT !.over = TRUE]
             ELSE FetchEach(Tail(symbols), period, out,
                     [cache |-> IF r.exc THEN st.cache
                                ELSE [st.cache EXCEPT ![key] = Memo(r.val)],
                      calls |-> [st.calls EXCEPT ![key] = @ + 1],
                      fetched |-> (key :> out[Head(symbols)]) @@ st.fetched,
                      exc |-> r.exc,
                      over |-> FALSE])

StartFetch == [cache |-> fetch_cache, calls |-> fetch_calls, fetched |-> <<>>,
               exc |-> FALSE, over |-> FALSE]

RecordOf == [f \in ProviderFrames |-> BuildRecord(f)]

\* the mapping built by the loop of get_stock_data from the fetched values
StockData(stock_list, period, cache) ==
    [symbol \in { x \in Range(stock_list) : ~cache[<<x, period>>].val.none }
        |-> RecordOf[cache[<<symbol, period>>].val.frame]]

\* the mapping built by the loop of get_market_overview
OverviewData(cache) ==
    [symbol \in { x \in Range(indices) : ~cache[<<x, "1d">>].val.none } |->
        LET f == cache[<<symbol, "1d">>].val.frame
            current_price == Last(f.Close)
        IN  [Price |-> current_price,
             Change |-> FMul(FDiv(FSub(current_price, f.Open[1]), f.Open[1]), Num(100))]]

NoResult == [exc |-> FALSE, map |-> <<>>]

Unset == [set |-> FALSE, val |-> NoResult]

\* slip: the refresh clears the store of get_stock_data only
KeptFetchCache == fetch_cache

\* st.cache_data.clear() empties the store of every cached function
ClearedFetchCache == [key \in FetchKeys |-> Miss]

ClearedStockCache == [l \in StockLists |-> [hit |-> FALSE, val |-> <<>>]]

IdleCache ==
    /\ fetch_cache = [key \in FetchKeys |-> Miss]
    /\ stock_cache = [l \in StockLists |-> [hit |-> FALSE, val |-> <<>>]]
    /\ fetch_calls = [key \in FetchKeys |-> 0]
    /\ fetched = <<>>
    /\ first_result = [l \in StockLists |-> Unset]
    /\ last_call = [op |-> "start", list |-> <<>>, hit |-> FALSE]
    /\ result = NoResult
    /\ overview = NoResult

(***************************************************************************)
(* Values the variables of a specification hold while another              *)
(* specification is the one being explored.                                *)
(***************************************************************************)
IdleSeries == data = [Open |-> <<>>, Close |-> <<>>] /\ rec = NoRecord

NotRun == [status |-> "pending", picks |-> <<>>]

IdleRank == stock_data_dict = <<>> /\ top_picks = NotRun

IdleClass == rsi = NaN /\ analyst_pick = "none"

(***************************************************************************)
(* Cache specification: any sequence of get_stock_data and                 *)
(* get_market_overview calls and refreshes.                                *)
(***************************************************************************)
Init == IdleCache /\ IdleSeries /\ IdleRank /\ IdleClass

\* get_stock_data(stock_list) with the default period
GetStockData(stock_list, out) ==
    LET period == "1mo"
        st == FetchEach(stock_list, period, out, StartFetch)
        value == [exc |-> FALSE, map |-> StockData(stock_list, period, st.cache)]
    IN  /\ last_call' = [op |-> "get_stock_data", list |-> stock_list,
                         hit |-> stock_cache[stock_list].hit]
        /\ IF stock_cache[stock_list].hit
           THEN /\ result' = [exc |-> FALSE, map |-> stock_cache[stock_list].val]
                /\ fetched' = <<>>
                /\ UNCHANGED <<fetch_cache, stock_cache, fetch_calls>>
           ELSE /\ ~st.over
                /\ fetch_cache' = st.cache
                /\ fetch_calls' = st.calls
                /\ fetched' = st.fetched
                /\ IF st.exc
                   THEN /\ result' = [exc |-> TRUE, map |-> <<>>]
                        /\ UNCHANGED stock_cache
                   ELSE /\ result' = value
                        /\ stock_cache' = [stock_cache EXCEPT
                                              ![stock_list] = [hit |-> TRUE, val |-> value.map]]
        /\ first_result' = IF first_result[stock_list].set THEN first_result
                           ELSE [first_result EXCEPT
                                    ![stock_list] = [set |-> TRUE, val |-> result']]
        /\ UNCHANGED <<overview, seriesVars, rankVars, classVars>>

GetMarketOverview(out) ==
    LET st == FetchEach(indices, "1d", out, StartFetch)
    IN  /\ ~st.over
        /\ last_call' = [op |-> "get_market_overview", list |-> indices, hit |-> FALSE]
        /\ fetch_cache' = st.cache
        /\ fetch_calls' = st.calls
        /\ fetched' = st.fetched
        /\ overview' = IF st.exc THEN [exc |-> TRUE, map |-> <<>>]
                       ELSE [exc |-> FALSE, map |-> OverviewData(st.cache)]
        /\ UNCHANGED <<stock_cache, first_result, result, seriesVars, rankVars, classVars>>

\* the refresh button of main_app
Refresh ==
    /\ last_call' = [op |-> "refresh", list |-> <<>>, hit |-> FALSE]
    /\ fetch_cache' = ClearedFetchCache
    /\ stock_cache' = ClearedStockCache
    /\ fetch_calls' = [key \in FetchKeys |-> 0]
    /\ fetched' = <<>>
    /\ first_result' = [l \in StockLists |-> Unset]
    /\ UNCHANGED <<result, overview, seriesVars, rankVars, classVars>>

\* the symbols of a call that are not in the store of fetch_data: the ones the
\* provider is queried for, each with an outcome of its own
ToQuery(symbols, period) == { x \in Range(symbols) : ~fetch_cache[<<x, period>>].hit }

Next ==
    \/ \E stock_list \in StockLists :
          \E out \in [IF stock_cache[stock_list].hit THEN {}
                       ELSE ToQuery(stock_list, "1mo") -> Outcomes] :
              GetStockData(stock_list, out)
    \/ \E out \in [ToQuery(indices, "1d") -> Outcomes] : GetMarketOverview(out)
    \/ Refresh

Spec == Init /\ [][Next]_vars

(***************************************************************************)
(* Series specification: one price series goes through the record builder  *)
(* of get_stock_data.                                                      *)
(***************************************************************************)
InitSeries ==
    /\ data \in SeriesInputs
    /\ rec = NoRecord
    /\ IdleCache /\ IdleRank /\ IdleClass

Build ==
    /\ rec = NoRecord
    /\ rec' = BuildRecord(data)
    /\ UNCHANGED <<data, cacheVars, rankVars, classVars>>

NextSeries == Build

SpecSeries == InitSeries /\ [][NextSeries]_vars

(***************************************************************************)
(* Classifier specification: one RSI value goes through the analyst        *)
(* classification of get_stock_data.                                       *)
(***************************************************************************)
RsiInputs == { Fin(k, d) : k \in 0..(100 * MaxDen), d \in 1..MaxDen } \cup {NaN}

InitClass ==
    /\ rsi \in { r \in RsiInputs : ~FGreater(r, Num(100)) }
    /\ analyst_pick = "none"
    /\ IdleCache /\ IdleSeries /\ IdleRank

Classify ==
    /\ analyst_pick = "none"
    /\ analyst_pick' = AnalystPick(rsi)
    /\ UNCHANGED <<rsi, cacheVars, seriesVars, rankVars>>

NextClass == Classify

SpecClass == InitClass /\ [][NextClass]_vars

(***************************************************************************)
(* Ranking specification: one collection of records goes through           *)
(* get_top_3_picks.                                                        *)
(***************************************************************************)
Changes == {Num(0), Num(1), Num(2)}

Momenta == {MomentumFloor, Fin(1, 100)}

RsiOfRecords == {NaN, Num(100)}

\* the record of the i-th symbol of the dict; i stands for its DataFrame
MkRecord(i, c, m, r) ==
    [Price |-> Num(10), Change |-> c, Momentum |-> m, RSI |-> r,
     Analyst |-> AnalystPick(r), Risk |-> Risk(c), Data |-> i]

InitRank ==
    /\ \E n \in 0..MaxRecs :
          \E c \in [1..n -> Changes], m \in [1..n -> Momenta], r \in [1..n -> RsiOfRecords] :
              stock_data_dict = [i \in 1..n |-> MkRecord(i, c[i], m[i], r[i])]
    /\ top_picks = NotRun
    /\ IdleCache /\ IdleSeries /\ IdleClass

Rank ==
    /\ top_picks = NotRun
    /\ top_picks' = get_top_3_picks(stock_data_dict)
    /\ UNCHANGED <<stock_data_dict, cacheVars, seriesVars, classVars>>

NextRank == Rank

SpecRank == InitRank /\ [][NextRank]_vars

(***************************************************************************)
(* Properties of the cache and of the batch builder                        *)
(***************************************************************************)
Populated(outcome) == ~outcome.exc /\ outcome.frame # EmptyFrame

StockCall == last_call.op = "get_stock_data"

C4_FailuresOmitted ==
    StockCall =>
        /\ ~result.exc
        /\ DOMAIN result.map =
              { x \in Range(last_call.list) : ~fetch_cache[<<x, "1mo">>].val.none }
        /\ \A key \in DOMAIN fetched :
              /\ Populated(fetched[key]) =>
                    /\ key[1] \in DOMAIN result.map
                    /\ result.map[key[1]].Data = fetched[key].frame
              /\ ~Populated(fetched[key]) => key[1] \notin DOMAIN result.map

C4_Witness ==
    /\ StockCall /\ last_call.list = all_stocks
    /\ <<"A", "1mo">> \in DOMAIN fetched /\ fetched[<<"A", "1mo">>].exc
    /\ <<"B", "1mo">> \in DOMAIN fetched /\ fetched[<<"B", "1mo">>].frame = EmptyFrame
    /\ ~fetched[<<"B", "1mo">>].exc
    /\ DOMAIN result.map = {"C"}

\* C10: between two cache clears the provider is queried at most once per
\* (symbol, period); a failed or empty fetch is kept as "no data", so the
\* symbol is not queried again and stays out of every later result until the
\* refresh
C10_FailureMemoised ==
    /\ [](\A key \in FetchKeys : fetch_calls[key] <= 1)
    /\ [][ \A key \in FetchKeys :
             (fetch_cache[key].hit /\ fetch_cache[key].val.none /\ last_call'.op # "refresh") =>
                 /\ fetch_cache'[key] = fetch_cache[key]
                 /\ key \notin DOMAIN fetched'
                 /\ (last_call'.op = "get_stock_data" /\ key[2] = "1mo") =>
                       key[1] \notin DOMAIN result'.map ]_vars

C10_Witness ==
    /\ StockCall /\ DOMAIN fetched # {}
    /\ \E x \in Range(last_call.list) :
          /\ fetch_cache[<<x, "1mo">>] = [hit |-> TRUE, val |-> None]
          /\ <<x, "1mo">> \notin DOMAIN fetched
          /\ x \notin DOMAIN result.map

(***************************************************************************)
(* Properties of the top-3 selection                                       *)
(***************************************************************************)
Returned == top_picks.status = "returned"

Picks == top_picks.picks

Inputs == { stock_data_dict[i] : i \in 1..Len(stock_data_dict) }

Picked == { Picks[i] : i \in 1..Len(Picks) }

Positive == { x \in Inputs : x.Change.n > 0 }

Strong == { x \in Positive : x.Momentum.n * 1000 > 5 * x.Momentum.d }

Min(a, b) == IF a < b THEN a ELSE b

\* C1: every record of the result has DayChange > 0, and a collection whose
\* records all have DayChange <= 0 gives the empty result without an exception
C1_OnlyPositiveChange ==
    /\ Returned => \A i \in 1..Len(Picks) : Picks[i].Change.n > 0
    /\ (top_picks # NotRun /\ Positive = {}) => top_picks = [status |-> "returned", picks |-> <<>>]

C1_Witness ==
    /\ Returned /\ Len(Picks) = 2
    /\ \E x \in Inputs : x.Change.n <= 0
    /\ \E i \in 1..2 : Picks[i] \notin Strong

C1_WitnessEmpty == top_picks # NotRun /\ Inputs # {} /\ Positive = {} /\ Picks = <<>>

\* C2: for every collection the result is the first up-to-3 strong records
\* (DayChange > 0 and Momentum > 0.005) in descending (DayChange, Momentum)
\* order, followed, when fewer than 3 were found, by the remaining records
\* with DayChange > 0 in the same order; it repeats no record and its length
\* is min(3, number of records with DayChange > 0)
C2_TwoTierSelection ==
    top_picks # NotRun =>
        /\ Returned
        /\ Picked \subseteq Positive
        /\ Len(Picks) = Min(3, Cardinality(Positive))
        /\ Cardinality(Picked) = Len(Picks)
        /\ Cardinality(Picked \cap Strong) = Min(3, Cardinality(Strong))
        /\ \A i, j \in 1..Len(Picks) :
              /\ (i < j /\ Picks[j] \in Strong) => Picks[i] \in Strong
              /\ (i < j /\ (Picks[i] \in Strong <=> Picks[j] \in Strong))
                    => ~KeyLess(Picks[i], Picks[j])
        /\ \A x \in Strong \ Picked : \A y \in Picked : ~KeyLess(y, x)
        /\ \A x \in Positive \ Picked : \A y \in Picked \ Strong : ~KeyLess(y, x)

(***************************************************************************)
(* Properties of the indicators and of the record                          *)
(***************************************************************************)
Built == rec # NoRecord

NBars == Len(data.Close)

\* every close-to-close delta of the series is non-negative
NoLosses == \A i \in 2..NBars : ~FLess(data.Close[i], data.Close[i - 1])

\* C5: the momentum of the record is 0 for a series of fewer than 5 bars and
\* otherwise the latest close minus the close five bars before it, over 5
C5_MomentumFiveBarsBack ==
    Built =>
        /\ NBars < 5 => rec.Momentum = Num(0)
        /\ NBars >= 6 =>
              rec.Momentum = FDiv(FSub(data.Close[NBars], data.Close[NBars - 5]), Num(5))

\* C6: a record never carries an undefined RSI: when the latest value of the
\* RSI series is undefined the record holds RSI 0 and the label Buy
C6_UndefinedRsiDefaultsToZero ==
    Built =>
        /\ ~IsNaN(rec.RSI)
        /\ IsNaN(Last(calculate_rsi(data))) => rec.RSI = Num(0) /\ rec.Analyst = "Buy"

C8_RsiRange ==
    (Built /\ NBars >= 2) =>
        LET r == Last(calculate_rsi(data))
        IN  /\ r.k = "fin" /\ r.n >= 0 /\ r.n <= 100 * r.d
            /\ NoLosses => r = Num(100)

\* C9 as stated: the record of the example series (closes 10..15, last open
\* 14) has RSI 100, label Buy and risk High
C9_ExampleBuy ==
    (Built /\ data = ExampleA) =>
        rec.RSI = Num(100) /\ rec.Analyst = "Buy" /\ rec.Risk = "High"

\* C9 amended: the record of the example series has RSI 100, label Sell and
\* risk High
C9_ExampleSell ==
    (Built /\ data = ExampleA) =>
        rec.RSI = Num(100) /\ rec.Analyst = "Sell" /\ rec.Risk = "High"

C9_Witness == Built /\ data = ExampleA

====
